---- MODULE Spec2Model ----
(***************************************************************************)
(* Model of src/agents.py: the bandit agents (base Agent, ExploreCommit,   *)
(* EpsilonGreedy, FPL, Exp3, UCB), driven by a caller that constructs one  *)
(* agent and then calls get_action and update_Q on it.                     *)
(*                                                                         *)
(* Numbers are exact rationals <<numerator, denominator>> in lowest terms  *)
(* with a positive denominator; IEEE rounding of Python floats is not      *)
(* modelled.  numpy arrays of length N are functions over 0..N-1.          *)
(***************************************************************************)
EXTENDS Integers, Sequences, FiniteSets, TLC

\* ------------------------------------------------------------------ bounds
MaxN == 2          \* largest number of arms bandit.N
MaxM == 1          \* largest ExploreCommit m
MaxUpdates == 3    \* successful update_Q calls per run (agents other than ExploreCommit)
MaxReward == 1     \* rewards are drawn from 0..MaxReward
Unit == 2          \* epsilon, anneal and the random draw are multiples of 1/Unit
MaxEps == 2        \* largest epsilon is MaxEps/Unit
MaxNoise == 1      \* an FPL noise sample is 0 or MaxNoise

\* --------------------------------------------------------------- rationals
Abs(i) == IF i < 0 THEN -i ELSE i

RECURSIVE GCD(_, _)
GCD(a, b) == IF b = 0 THEN a ELSE GCD(b, a % b)

Norm(n, d) ==
    LET s == IF d < 0 THEN -1 ELSE 1
        g == GCD(Abs(n), Abs(d))
    IN  IF n = 0 THEN <<0, 1>>
        ELSE <<s * (IF n < 0 THEN -(Abs(n) \div g) ELSE Abs(n) \div g), Abs(d) \div g>>

RInt(i) == <<i, 1>>
RAdd(x, y) == Norm(x[1] * y[2] + y[1] * x[2], x[2] * y[2])
RSub(x, y) == Norm(x[1] * y[2] - y[1] * x[2], x[2] * y[2])
RMul(x, y) == Norm(x[1] * y[1], x[2] * y[2])
RDiv(x, y) == Norm(x[1] * y[2], x[2] * y[1])
RLt(x, y) == x[1] * y[2] < y[1] * x[2]
RLe(x, y) == x[1] * y[2] <= y[1] * x[2]
RMax(x, y) == IF RLt(x, y) THEN y ELSE x
RZero == RInt(0)
ROne == RInt(1)

\* ------------------------------------------------------------------ state
VARIABLES
    kind,          \* class of the constructed agent, "none" before construction
    N,             \* bandit.N
    t,             \* self.t
    Q,             \* self.Q
    param,         \* self.param
    param_init,    \* self.param_init
    anneal,        \* self.anneal
    final_choice,  \* ExploreCommitAgent.final_choice
    ws,            \* Exp3Agent.ws
    ps,            \* Exp3Agent.ps
    z,             \* FPLAgent.z
    pending,       \* action returned by the last get_action and not yet credited
    calls,         \* actions returned so far by a deterministic policy (ExploreCommit,
                   \* UCB) while the caller kept to the round protocol
    proto,         \* the caller has alternated get_action / update_Q of the returned action
    last,          \* the last call: its name, its argument (or result), what it raised
                   \* (or the numpy warning it gave) and the branch it took
    credit         \* per arm, how many rewards were credited to it and their sum

vars == <<kind, N, t, Q, param, param_init, anneal, final_choice, ws, ps, z,
          pending, calls, proto, last, credit>>

agent == <<t, Q, param, param_init, anneal, final_choice, ws, ps, z>>

\* stands for "no action": an index below every index a call is given
NoAction == -(MaxN + 2)

Kinds == {"ExploreCommit", "EpsilonGreedy", "FPL", "Exp3", "UCB"}

Arms == 0..(N - 1)

RECURSIVE SumTo(_, _)
SumTo(f, n) == IF n = 0 THEN 0 ELSE f[n - 1] + SumTo(f, n - 1)

\* np.sum(self.t)
Sum(f) == SumTo(f, N)

\* np.zeros(n) / np.ones(n)
Zeros(n) == [a \in 0..(n - 1) |-> RZero]
Ones(n) == [a \in 0..(n - 1) |-> ROne]
IntZeros(n) == [a \in 0..(n - 1) |-> 0]

NoCredit(n) == [a \in 0..(n - 1) |-> [n |-> 0, sum |-> 0]]

Init ==
    /\ kind = "none"
    /\ N = 0
    /\ t = IntZeros(0)
    /\ Q = Zeros(0)
    /\ param = RZero
    /\ param_init = RZero
    /\ anneal = RZero
    /\ final_choice = 0
    /\ ws = Zeros(0)
    /\ ps = Zeros(0)
    /\ z = IntZeros(0)
    /\ pending = NoAction
    /\ calls = <<>>
    /\ proto = TRUE
    /\ last = [op |-> "none", arg |-> 0, raised |-> "none", branch |-> ""]
    /\ credit = NoCredit(0)

\* ------------------------------------------------------------ construction
\* the values the caller passes to the constructors
ArmCounts == -1..MaxN
MValues == {RInt(m) : m \in -1..MaxM}
EpsValues == {Norm(k, Unit) : k \in 0..MaxEps}
AnnealValues == {RZero, Norm(1, Unit), ROne}
LamValues == {RInt(-1), RInt(0), RInt(1)}
GammaValues == {Norm(-1, Unit), RZero, Norm(1, Unit), ROne, Norm(Unit + 1, Unit)}
CValues == {RInt(0), RInt(1)}

Call(op, arg, raised, branch) ==
    [op |-> op, arg |-> arg, raised |-> raised, branch |-> branch]

\* faulty variant: an allocation that also refuses the empty length
AllocRaisesEmpty(n) == n < 1

\* np.zeros / np.ones refuse a negative length
AllocRaises(n) == n < 0

\* Agent.__init__ : the fields every agent has
AgentInit(n, p, an) ==
    /\ param' = p
    /\ param_init' = p
    /\ anneal' = an
    /\ t' = IntZeros(n)
    /\ Q' = Zeros(n)

\* what every constructor call does around the class's own fields
Constructed(k, n) ==
    /\ kind' = k
    /\ N' = n
    /\ credit' = NoCredit(n)
    /\ pending' = NoAction
    /\ calls' = <<>>
    /\ proto' = TRUE
    /\ last' = Call("construct", n, "none", "")

ConstructFails(n) ==
    /\ last' = Call("construct", n, "ValueError", "")
    /\ UNCHANGED <<kind, N, agent, pending, calls, proto, credit>>

\* ExploreCommitAgent.__init__ : the anneal argument is not passed on
ConstructExploreCommit(n, m, an) ==
    /\ kind = "none"
    /\ IF AllocRaises(n) THEN ConstructFails(n)
       ELSE /\ final_choice' = 0
            /\ AgentInit(n, m, RZero)
            /\ Constructed("ExploreCommit", n)
            /\ UNCHANGED <<ws, ps, z>>

\* EpsilonGreedyAgent.__init__
ConstructEpsilonGreedy(n, epsilon, an) ==
    /\ kind = "none"
    /\ IF AllocRaises(n) THEN ConstructFails(n)
       ELSE /\ AgentInit(n, epsilon, an)
            /\ Constructed("EpsilonGreedy", n)
            /\ UNCHANGED <<final_choice, ws, ps, z>>

\* FPLAgent.__init__
ConstructFPL(n, lam) ==
    /\ kind = "none"
    /\ IF AllocRaises(n) THEN ConstructFails(n)
       ELSE /\ z' = IntZeros(n)
            /\ AgentInit(n, lam, RZero)
            /\ Constructed("FPL", n)
            /\ UNCHANGED <<final_choice, ws, ps>>

\* Exp3Agent.__init__
ConstructExp3(n, gamma) ==
    /\ kind = "none"
    /\ IF AllocRaises(n) THEN ConstructFails(n)
       ELSE /\ ws' = Ones(n)
            /\ ps' = Ones(n)
            /\ AgentInit(n, gamma, RZero)
            /\ Constructed("Exp3", n)
            /\ UNCHANGED <<final_choice, z>>

\* UCBAgent.__init__
ConstructUCB(n, c) ==
    /\ kind = "none"
    /\ IF AllocRaises(n) THEN ConstructFails(n)
       ELSE /\ AgentInit(n, c, RZero)
            /\ Constructed("UCB", n)
            /\ UNCHANGED <<final_choice, ws, ps, z>>

NewExploreCommit ==
    \E n \in ArmCounts, m \in MValues, an \in AnnealValues : ConstructExploreCommit(n, m, an)

NewEpsilonGreedy ==
    \E n \in ArmCounts, e \in EpsValues, an \in AnnealValues : ConstructEpsilonGreedy(n, e, an)

NewFPL == \E n \in ArmCounts, l \in LamValues : ConstructFPL(n, l)

NewExp3 == \E n \in ArmCounts, g \in GammaValues : ConstructExp3(n, g)

NewUCB == \E n \in ArmCounts, c \in CValues : ConstructUCB(n, c)

\* ---------------------------------------------------------------- update_Q
Rewards == 0..MaxReward

\* the action indices the caller may pass: every arm, its negative alias, and one
\* index off each end
ActionArgs == (-(N + 1))..N

\* faulty variant: indexing that refuses every negative index
IndexRaisesNoWrap(action, n) == action >= n \/ action < 0

\* numpy indexing self.t[action]: IndexError unless -N <= action < N
IndexRaises(action, n) == action >= n \/ action < -n

\* numpy indexing: a negative index counts from the end
Index(action, n) == IF action < 0 THEN n + action ELSE action

\* faulty variant: the step 1/(t+1) of the docstring, taken after the increment
RunningMeanStale(q, cnt, reward) ==
    RAdd(q, RMul(RDiv(ROne, RInt(cnt + 1)), RSub(RInt(reward), q)))

\* Q(a) <- Q(a) + 1/t * (r - Q(a)), t the count after the increment
RunningMean(q, cnt, reward) ==
    RAdd(q, RMul(RDiv(ROne, RInt(cnt)), RSub(RInt(reward), q)))

\* faulty variant: annealing without the floor at 0
AnnealNoFloor(p, an) ==
    IF Abs(an[1]) > 0 /\ p # RZero THEN RSub(p, an) ELSE p

\* if abs(anneal) > 0 and param != 0: param = max(0, param - anneal)
Anneal(p, an) ==
    IF Abs(an[1]) > 0 /\ p # RZero THEN RMax(RZero, RSub(p, an)) ELSE p

\* Agent.update_Q
AgentUpdateQ(action, reward) ==
    LET i == Index(action, N) IN
    /\ t' = [t EXCEPT ![i] = @ + 1]
    /\ Q' = [Q EXCEPT ![i] = RunningMean(@, t[i] + 1, reward)]
    /\ param' = Anneal(param, anneal)

\* faulty variant: FPL left on the inherited running-mean update
FPLUpdateQMean(action, reward) == AgentUpdateQ(action, reward)

\* FPLAgent.update_Q
FPLUpdateQ(action, reward) ==
    LET i == Index(action, N) IN
    /\ t' = [t EXCEPT ![i] = @ + 1]
    /\ Q' = [Q EXCEPT ![i] = RAdd(@, RInt(reward))]
    /\ param' = param

\* IEEE values a weight or probability takes once a division by zero has happened
Inf == <<1, 0>>
NegInf == <<-1, 0>>
NaN == <<0, 0>>
Finite(x) == x[2] # 0

\* product of a weight and a factor, both >= 0 or not finite
WMul(w, f) ==
    IF w = NaN \/ f = NaN THEN NaN
    ELSE IF w = Inf \/ f = Inf
         THEN (IF w = RZero \/ f = RZero THEN NaN ELSE Inf)
         ELSE RMul(w, f)

\* the value standing for np.exp(x), which is not rational: 1 at 0, a value above
\* 1 (here 2) for x > 0, a value in (0,1) (here 1/2) for x < 0
ExpValues(x) ==
    IF x = NaN THEN {NaN}
    ELSE IF x = Inf THEN {Inf}
    ELSE IF x = NegInf THEN {RZero}
    ELSE IF x = RZero THEN {ROne}
    ELSE IF RLt(RZero, x) THEN {RInt(2)}
    ELSE {Norm(1, 2)}

\* (self.param * reward) / (self.ps[action] * len(self.ps)), as numpy divides
Exp3Exponent(gamma, reward, p, n) ==
    LET num == RMul(gamma, RInt(reward)) IN
    IF p = NaN THEN NaN
    ELSE IF p = RZero
         THEN (IF num = RZero THEN NaN ELSE IF RLt(RZero, num) THEN Inf ELSE NegInf)
         ELSE RDiv(num, RMul(p, RInt(n)))

Exp3Factors(gamma, reward, p, n) == ExpValues(Exp3Exponent(gamma, reward, p, n))

\* Exp3Agent.update_Q
Exp3UpdateQ(action, reward) ==
    LET i == Index(action, N) IN
    /\ AgentUpdateQ(action, reward)
    /\ \E f \in Exp3Factors(param, reward, ps[i], N) :
           ws' = [ws EXCEPT ![i] = WMul(@, f)]

\* the caller's bookkeeping of a call update_Q(action, reward)
Credited(action, reward, raised) ==
    /\ last' = Call("update_Q", action, raised, "")
    /\ proto' = (proto /\ pending = action /\ raised = "none")
    /\ calls' = IF proto' THEN calls ELSE <<>>
    /\ pending' = NoAction
    /\ credit' = IF raised = "none"
                 THEN [credit EXCEPT ![Index(action, N)] =
                          [n |-> @.n + 1, sum |-> @.sum + reward]]
                 ELSE credit

\* how many successful updates a run may hold
MayUpdate(action) ==
    \/ Sum(t) < MaxUpdates
    \/ /\ kind = "ExploreCommit"
       /\ proto /\ pending = action
       /\ Sum(t) < MaxM * MaxN + 3

UpdateQ(action, reward) ==
    /\ kind # "none"
    /\ IF IndexRaises(action, N)
       THEN /\ Credited(action, reward, "IndexError")
            /\ UNCHANGED <<kind, N, agent>>
       ELSE /\ MayUpdate(action)
            /\ Credited(action, reward, "none")
            /\ UNCHANGED <<kind, N, param_init, anneal, final_choice, z>>
            /\ CASE kind = "FPL" -> FPLUpdateQ(action, reward) /\ UNCHANGED <<ws, ps>>
                 [] kind = "Exp3" -> Exp3UpdateQ(action, reward) /\ UNCHANGED ps
                 [] OTHER -> AgentUpdateQ(action, reward) /\ UNCHANGED <<ws, ps>>

\* -------------------------------------------------------------- get_action
\* np.argmax over rationals: the first index holding the maximum
ArgMax(f) ==
    CHOOSE a \in DOMAIN f :
        \A b \in DOMAIN f : RLe(f[b], f[a]) /\ (b < a => RLt(f[b], f[a]))

\* numpy's integer remainder: 0 (with a warning) when the divisor is 0
Mod(a, n) == IF n = 0 THEN 0 ELSE a % n

\* the caller's bookkeeping of a get_action call that returned a
Returned(a, warned, branch) ==
    /\ last' = Call("get_action", a, warned, branch)
    /\ proto' = (proto /\ pending = NoAction)
    /\ calls' = IF proto' /\ kind \in {"ExploreCommit", "UCB"}
                THEN Append(calls, a) ELSE <<>>
    /\ pending' = a
    /\ UNCHANGED <<kind, N, credit>>

\* ... and of one that raised
GetRaised(err, branch) ==
    /\ last' = Call("get_action", NoAction, err, branch)
    /\ proto' = FALSE
    /\ calls' = <<>>
    /\ pending' = NoAction
    /\ UNCHANGED <<kind, N, credit>>

\* ExploreCommitAgent.get_action: t <= self.param * bandit.N
ECExploring(tt, m, n) == RLe(RInt(tt), RMul(m, RInt(n)))

\* ExploreCommitAgent.get_action: t == self.param * bandit.N + 1
ECCommitting(tt, m, n) == RInt(tt) = RAdd(RMul(m, RInt(n)), ROne)

ExploreCommitGetAction ==
    /\ kind = "ExploreCommit"
    /\ LET tt == Sum(t) IN
       IF ECExploring(tt, param, N)
       THEN /\ Returned(Mod(tt, N), "none", "explore")
            /\ UNCHANGED agent
       ELSE IF ECCommitting(tt, param, N)
       THEN /\ final_choice' = ArgMax(Q)
            /\ Returned(final_choice', "none", "commit")
            /\ UNCHANGED <<t, Q, param, param_init, anneal, ws, ps, z>>
       ELSE /\ Returned(final_choice, "none", "exploit")
            /\ UNCHANGED agent

\* np.random.random(): a draw in [0.0, 1.0)
RandomDraws == {Norm(k, Unit) : k \in 0..(Unit - 1)}

\* faulty variant: first-found argmax instead of all the tied best arms
GreedyArmsFirst(q) == {ArgMax(q)}

\* np.flatnonzero(self.Q == self.Q.max())
GreedyArms(q) == {a \in DOMAIN q : \A b \in DOMAIN q : RLe(q[b], q[a])}

\* (rand < self.param) or force_explore
EGExplores(rand, eps, force_explore) == RLt(rand, eps) \/ force_explore

\* EpsilonGreedyAgent.get_action; randint and max raise on an empty range
EpsilonGreedyGetAction(rand, force_explore) ==
    /\ kind = "EpsilonGreedy"
    /\ UNCHANGED agent
    /\ IF EGExplores(rand, param, force_explore)
       THEN IF N = 0 THEN GetRaised("ValueError", "explore")
            ELSE \E a \in Arms : Returned(a, "none", "explore")
       ELSE IF N = 0 THEN GetRaised("ValueError", "exploit")
            ELSE \E a \in GreedyArms(Q) : Returned(a, "none", "exploit")

\* the samples np.random.exponential may give for one call
NoiseVectors == [Arms -> {0, MaxNoise}]

\* self.Q + self.z
Perturbed(q, noise) == [a \in DOMAIN q |-> RAdd(q[a], RInt(noise[a]))]

\* FPLAgent.get_action: 1. / 0 and a negative scale raise before z is assigned
FPLGetAction ==
    /\ kind = "FPL"
    /\ UNCHANGED <<t, Q, param, param_init, anneal, final_choice, ws, ps>>
    /\ IF param = RZero THEN GetRaised("ZeroDivisionError", "") /\ z' = z
       ELSE IF RLt(param, RZero) THEN GetRaised("ValueError", "") /\ z' = z
       ELSE \E noise \in NoiseVectors :
                /\ z' = noise
                /\ IF N = 0 THEN GetRaised("ValueError", "")
                   ELSE Returned(ArgMax(Perturbed(Q, noise)), "none", "")

\* np.sum(self.ws), with IEEE infinities and NaN
RECURSIVE WSumTo(_, _)
WSumTo(w, n) ==
    IF n = 0 THEN RZero
    ELSE LET rest == WSumTo(w, n - 1)
             x == w[n - 1]
         IN  IF rest = NaN \/ x = NaN THEN NaN
             ELSE IF rest = Inf \/ x = Inf THEN Inf
             ELSE RAdd(rest, x)

\* self.ws / np.sum(self.ws), one entry
WRatio(x, total) ==
    IF x = NaN \/ total = NaN THEN NaN
    ELSE IF total = Inf THEN (IF x = Inf THEN NaN ELSE RZero)
    ELSE IF total = RZero THEN NaN
    ELSE RDiv(x, total)

\* faulty variant: the uniform share added without scaling the weighted share
Exp3ProbsUnscaled(w, gamma, n) ==
    [a \in 0..(n - 1) |->
        LET r == WRatio(w[a], WSumTo(w, n)) IN
        IF r = NaN THEN NaN ELSE RAdd(r, RDiv(gamma, RInt(n)))]

\* (1 - self.param) * (self.ws / np.sum(self.ws)) + self.param / bandit.N
Exp3Probs(w, gamma, n) ==
    [a \in 0..(n - 1) |->
        LET r == WRatio(w[a], WSumTo(w, n)) IN
        IF r = NaN THEN NaN
        ELSE RAdd(RMul(RSub(ROne, gamma), r), RDiv(gamma, RInt(n)))]

\* np.random.choice refuses probabilities that are NaN or negative
ChoiceRaises(p) == \E a \in DOMAIN p : p[a] = NaN \/ RLt(p[a], RZero)

\* Exp3Agent.get_action: param / 0 raises before ps is assigned
Exp3GetAction ==
    /\ kind = "Exp3"
    /\ UNCHANGED <<t, Q, param, param_init, anneal, final_choice, ws, z>>
    /\ IF N = 0 THEN GetRaised("ZeroDivisionError", "") /\ ps' = ps
       ELSE /\ ps' = Exp3Probs(ws, param, N)
            /\ IF ChoiceRaises(ps') THEN GetRaised("ValueError", "")
               ELSE \E a \in Arms : RLt(RZero, ps'[a]) /\ Returned(a, "none", "")

\* faulty variant: a warm-up that stops one arm short
UCBWarmupShort(tt, n) == tt < n - 1

\* UCBAgent.get_action: t < bandit.N
UCBWarmup(tt, n) == tt < n

\* arm b's bound is at least arm a's and wins the argmax over it whatever the
\* confidence term is (c > 0, log f > 0)
UCBBeats(b, a) ==
    /\ RLe(Q[a], Q[b]) /\ t[b] <= t[a]
    /\ (RLt(Q[a], Q[b]) \/ t[b] < t[a] \/ b < a)

\* np.argmax(self.Q + self.param * np.sqrt(2 * math.log(f) * 1. / self.t)):
\* a count of 0 gives inf (NaN when c = 0), which numpy's argmax takes first;
\* with c = 0 or log f = 0 the bound is Q; otherwise log and sqrt are not
\* computed and any arm that no other arm surely beats may be the result
UCBBoundArms(tt) ==
    LET unvisited == {a \in Arms : t[a] = 0} IN
    IF unvisited # {} THEN {CHOOSE a \in unvisited : \A b \in unvisited : a <= b}
    ELSE IF param = RZero \/ tt = 1 THEN {ArgMax(Q)}
    ELSE {a \in Arms : \A b \in Arms : ~UCBBeats(b, a)}

\* UCBAgent.get_action; math.log(0) raises
UCBGetAction ==
    /\ kind = "UCB"
    /\ UNCHANGED agent
    /\ LET tt == Sum(t) IN
       IF UCBWarmup(tt, N) THEN Returned(tt, "none", "warmup")
       ELSE IF tt = 0 THEN GetRaised("ValueError", "bound")
       ELSE \E a \in UCBBoundArms(tt) :
                Returned(a, IF \E b \in Arms : t[b] = 0 THEN "RuntimeWarning" ELSE "none",
                         "bound")

EpsilonGreedyGet ==
    \E rand \in RandomDraws, force_explore \in BOOLEAN :
        EpsilonGreedyGetAction(rand, force_explore)

Update == \E action \in ActionArgs, reward \in Rewards : UpdateQ(action, reward)

\* one run constructs one agent of any class and drives it
Next ==
    \/ NewExploreCommit \/ NewEpsilonGreedy \/ NewFPL \/ NewExp3 \/ NewUCB
    \/ ExploreCommitGetAction \/ EpsilonGreedyGet \/ FPLGetAction
    \/ Exp3GetAction \/ UCBGetAction
    \/ Update

Spec == Init /\ [][Next]_vars

\* the runs of one class each
NextExploreCommit == NewExploreCommit \/ ExploreCommitGetAction \/ Update
SpecExploreCommit == Init /\ [][NextExploreCommit]_vars

NextEpsilonGreedy == NewEpsilonGreedy \/ EpsilonGreedyGet \/ Update
SpecEpsilonGreedy == Init /\ [][NextEpsilonGreedy]_vars

NextFPL == NewFPL \/ FPLGetAction \/ Update
SpecFPL == Init /\ [][NextFPL]_vars

NextExp3 == NewExp3 \/ Exp3GetAction \/ Update
SpecExp3 == Init /\ [][NextExp3]_vars

NextUCB == NewUCB \/ UCBGetAction \/ Update
SpecUCB == Init /\ [][NextUCB]_vars

\* ------------------------------------------------------------------ claims
RGe0(x) == RLe(RZero, x)
RPos(x) == RLt(RZero, x)

\* ceil(x / y) for rationals x >= 0, y > 0
RCeilDiv(x, y) ==
    LET num == x[1] * y[2]
        den == x[2] * y[1]
    IN  (num + den - 1) \div den

RECURSIVE RSumTo(_, _)
RSumTo(f, n) == IF n = 0 THEN RZero ELSE RAdd(f[n - 1], RSumTo(f, n - 1))

\* C1 (as claimed): an ExploreCommit agent driven round by round returns
\* (k-1) mod N on its k-th call for k <= m*N, the first argmax of Q over those
\* m*N rewards on call m*N+1, and that same arm on every later call.
C1_ExploreThenCommit ==
    (kind = "ExploreCommit" /\ proto /\ N >= 1 /\ RLe(ROne, param)) =>
        LET mn == param[1] * N IN
        \A k \in 1..Len(calls) :
            /\ k <= mn => calls[k] = (k - 1) % N
            /\ (k = mn + 1 /\ Len(calls) = k /\ pending # NoAction) =>
                   calls[k] = ArgMax(Q)
            /\ k > mn + 1 => calls[k] = calls[mn + 1]

C3_RunningMean ==
    (kind \in {"EpsilonGreedy", "ExploreCommit", "UCB", "Exp3"}) =>
        \A a \in Arms :
            /\ t[a] = credit[a].n
            /\ t[a] >= 1 => RMul(Q[a], RInt(t[a])) = RInt(credit[a].sum)
            /\ t[a] = 0 => Q[a] = RZero

C3_Witness ==
    /\ kind = "Exp3" /\ N >= 2
    /\ \E a, b \in Arms : a # b /\ t[a] >= 2 /\ Q[a][2] = 2 /\ t[b] >= 1

\* C4: FPL keeps in Q[a] the raw sum of the rewards credited to arm a, in t[a]
\* their number, and never changes lambda.
C4_FPLAccumulates ==
    kind = "FPL" =>
        /\ param = param_init
        /\ \A a \in Arms : Q[a] = RInt(credit[a].sum) /\ t[a] = credit[a].n

C4_Witness ==
    /\ kind = "FPL"
    /\ \E a \in Arms : t[a] = 2 /\ Q[a] = RInt(2)

\* C5 (as claimed): update_Q with an action outside [0, N) raises IndexError
\* and leaves the agent as it was.
C5_OutsideRangeRaises ==
    [][(last'.op = "update_Q" /\ (last'.arg < 0 \/ last'.arg >= N)) =>
           (last'.raised = "IndexError" /\ UNCHANGED agent)]_vars

\* C5 (amended): update_Q raises IndexError, leaving the agent as it was, when
\* action >= N or action < -N; an action in [-N, -1] is accepted and credits
\* arm N + action, and an action in [0, N) credits that arm.
C5_IndexErrorOutsideWrap ==
    [][last'.op = "update_Q" =>
           LET a == last'.arg IN
           IF a >= N \/ a < -N
           THEN last'.raised = "IndexError" /\ UNCHANGED agent
           ELSE LET i == IF a < 0 THEN N + a ELSE a IN
                /\ last'.raised = "none"
                /\ t' = [t EXCEPT ![i] = @ + 1]
                /\ \A b \in Arms \ {i} : Q'[b] = Q[b]]_vars

C5_Witness ==
    /\ N >= 2
    /\ last.op = "update_Q" /\ last.arg = -1 /\ last.raised = "none"
    /\ t[N - 1] = 1 /\ Sum(t) = 1

\* C6 (as claimed): no agent exists with N < 1, a gamma outside [0,1], a
\* lambda <= 0 or an m <= 0: construction raised instead.
C6_InvalidConfigRejected ==
    kind # "none" =>
        /\ N >= 1
        /\ kind = "Exp3" => (RGe0(param_init) /\ RLe(param_init, ROne))
        /\ kind = "FPL" => RPos(param_init)
        /\ kind = "ExploreCommit" => RPos(param_init)

\* C6 (amended): construction checks neither N nor the policy parameter; it
\* fails exactly when N < 0, with the array allocation's ValueError, and for
\* every N >= 0 and every parameter value it yields an agent with zero counts
\* and estimates of length N and param = param_init.
C6_OnlyNegativeNFails ==
    last.op = "construct" =>
        /\ (last.raised = "none") <=> (last.arg >= 0)
        /\ last.raised # "none" => (last.raised = "ValueError" /\ kind = "none")
        /\ last.raised = "none" =>
               /\ kind \in Kinds /\ N = last.arg
               /\ t = IntZeros(N) /\ Q = Zeros(N)
               /\ param = param_init

C6_Witness ==
    /\ last.op = "construct" /\ last.raised = "none"
    /\ kind = "FPL" /\ N = 0 /\ RLe(param_init, RZero)

\* C7: a UCB agent driven round by round returns 0, 1, ..., N-1 on its first N
\* calls, whatever the rewards; a call made while sum(t) < N returns sum(t).
C7_UCBWarmup ==
    (kind = "UCB" /\ N >= 1) =>
        /\ proto => \A k \in 1..Len(calls) : k <= N => calls[k] = k - 1
        /\ (proto /\ pending = NoAction /\ Sum(t) < N) => Len(calls) = Sum(t)
        /\ (last.op = "get_action" /\ Sum(t) < N) =>
               (last.raised = "none" /\ last.arg = Sum(t))

C7_Witness ==
    /\ kind = "UCB" /\ proto /\ N >= 2 /\ Len(calls) >= N
    /\ \E a, b \in Arms : credit[a].sum # credit[b].sum

\* C8: for gamma in [0,1] and positive weights, right after get_action every
\* ps[a] is in [0,1] and the ps sum to 1.
C8_ProbabilitiesNormalised ==
    (/\ kind = "Exp3" /\ N >= 1 /\ last.op = "get_action"
     /\ RGe0(param) /\ RLe(param, ROne)
     /\ \A a \in Arms : Finite(ws[a]) /\ RPos(ws[a])) =>
        /\ last.raised = "none"
        /\ \A a \in Arms : Finite(ps[a]) /\ RGe0(ps[a]) /\ RLe(ps[a], ROne)
        /\ RSumTo(ps, N) = ROne

C8_Witness ==
    /\ kind = "Exp3" /\ N >= 2 /\ last.op = "get_action"
    /\ RPos(param) /\ RLt(param, ROne)
    /\ ws[0] # ws[1] /\ ps[0] # ps[1]

\* C9: when a UCB agent driven round by round takes the bound-formula branch,
\* every arm has been pulled at least once, so no count it divides by is 0.
C9_NoDivisionByZero ==
    (kind = "UCB" /\ N >= 1 /\ proto) =>
        /\ Sum(t) >= N => \A a \in Arms : t[a] >= 1
        /\ (last.op = "get_action" /\ last.branch = "bound") =>
               (last.raised = "none" /\ \A a \in Arms : t[a] >= 1)

C9_Witness ==
    /\ kind = "UCB" /\ N >= 2 /\ proto
    /\ last.op = "get_action" /\ last.branch = "bound"

\* C10: an exploit call returns an arm whose Q is max(Q), and each such arm
\* (no other) is a possible result; an explore call may return any arm.
C10_GreedyTieBreak ==
    (kind = "EpsilonGreedy" /\ N >= 1) =>
        /\ (last.op = "get_action" /\ last.branch = "exploit") =>
               \A b \in Arms : RLe(Q[b], Q[last.arg])
        /\ \A rand \in RandomDraws, force_explore \in BOOLEAN, a \in Arms :
               LET possible == ENABLED (/\ EpsilonGreedyGetAction(rand, force_explore)
                                        /\ pending' = a)
                   best == \A b \in Arms : RLe(Q[b], Q[a])
               IN  IF RLt(rand, param) \/ force_explore
                   THEN possible
                   ELSE possible <=> best

C10_Witness ==
    /\ kind = "EpsilonGreedy" /\ N >= 2
    /\ last.op = "get_action" /\ last.branch = "exploit" /\ last.arg = 1
    /\ Q[0] = Q[1] /\ RPos(Q[0])

====
